---- MODULE Spec2Model ----
(***************************************************************************)
(* cbfsclient restore (src/cbfsclient/restore.go).                         *)
(*                                                                         *)
(* restoreCommand compiles the match pattern, opens and gunzips the        *)
(* backup file, starts *restoreWorkers goroutines running restoreWorker,   *)
(* then decodes the archive record by record, counting and sending every   *)
(* record whose path matches on an unbuffered channel.  At io.EOF it       *)
(* closes the channel, waits on the WaitGroup and logs the summary.        *)
(* restoreWorker ranges over the channel and calls restoreFile, which      *)
(* POSTs the record's metadata to the restore endpoint.  log.Fatalf exits  *)
(* the whole process.                                                      *)
(***************************************************************************)
EXTENDS Integers, Sequences, FiniteSets, TLC

\* ------------------------------------------------------------------------
\* Bounds of the model
\* ------------------------------------------------------------------------
MaxLen == 3
MaxWorkers == 2

\* ------------------------------------------------------------------------
\* Inputs
\* ------------------------------------------------------------------------
\* Paths are sequences of characters.
PathA == <<"a", "/", "1">>
PathB == <<"b", "/", "2">>
Paths == {PathA, PathB}

\* One JSON unit of the archive: a well-formed restoreWorkItem (Meta is an
\* opaque json.RawMessage that is only passed through) or malformed content.
Entries == [bad : {FALSE}, Path : Paths] \cup {[bad |-> TRUE, Path |-> <<>>]}

Archives == UNION {[1..n -> Entries] : n \in 0..MaxLen}

\* -match patterns: the default ".*", "^a/", "2" and the uncompilable "(".
\* A compilable pattern is a literal, possibly anchored at the start.
PatAll == [src |-> ".*", ok |-> TRUE, anchored |-> FALSE, lit |-> <<>>]
PatA == [src |-> "^a/", ok |-> TRUE, anchored |-> TRUE, lit |-> <<"a", "/">>]
PatB == [src |-> "2", ok |-> TRUE, anchored |-> FALSE, lit |-> <<"2">>]
PatBad == [src |-> "(", ok |-> FALSE, anchored |-> FALSE, lit |-> <<>>]
Patterns == {PatAll, PatA, PatB, PatBad}

\* What os.Open / gzip.NewReader find at the file name.
FileStates == {"ok", "missing", "notgzip"}

\* What http.Post returns: a transport error, or a response with a status.
Statuses == {201, 500}
Replies == [err : {FALSE}, StatusCode : Statuses] \cup {[err |-> TRUE, StatusCode |-> 0]}

\* Goroutine identities; one more than the largest worker count.
WorkerIds == 1..(MaxWorkers + 1)

VARIABLES
    archive,    \* the decompressed contents of the backup file
    fileState,  \* whether the file opens and is gzip
    pat,        \* *restorePat
    workers,    \* *restoreWorkers
    noop,       \* *restoreNoop
    baseOk,     \* whether url.Parse(base) succeeds
    hung,       \* position of the record whose POST never returns, or 0
    sup,        \* position of restoreCommand
    idx,        \* number of units the decoder has consumed
    nfiles,     \* nfiles
    ch,         \* the item the scanner is blocked sending, as a sequence
    chClosed,   \* close(ch) has been executed
    wg,         \* the WaitGroup counter
    pc,         \* position of each restoreWorker goroutine
    item,       \* the item each worker holds (ob), as a sequence
    fatal,      \* which log.Fatalf ended the process, or "none"
    sent,       \* positions of records the scanner has sent on ch
    recvCount,  \* per position: number of receives from ch
    order,      \* positions in the order they were received
    posts,      \* positions for which http.Post has been called
    reply,      \* per position: what http.Post returned, as a sequence
    outcome,    \* per position: restoreFile's result
    doneCount,  \* per position: number of returns from restoreFile
    summary     \* the count logged by "Restored %v files", as a sequence

config == <<archive, fileState, pat, workers, noop, baseOk, hung>>
prog == <<sup, idx, nfiles, ch, chClosed, wg, pc, item, fatal>>
hist == <<sent, recvCount, order, posts, reply, outcome, doneCount, summary>>
vars == <<config, prog, hist>>

Positions == 1..Len(archive)

\* ------------------------------------------------------------------------
\* Pure functions
\* ------------------------------------------------------------------------
\* regexp.Compile
Compile(p) == p.ok

\* Mutation: the filter lets every path through.
MatchStringAlways(re, path) == TRUE

\* regex.MatchString: an unanchored search for the pattern in the path.
MatchString(re, path) ==
    \E k \in 0..(Len(path) - Len(re.lit)) :
        /\ re.anchored => k = 0
        /\ SubSeq(path, k + 1, k + Len(re.lit)) = re.lit

\* Mutation: a malformed unit is taken for the end of the stream.
DecodeResultLenient(a, n) ==
    IF n = Len(a) \/ a[n + 1].bad THEN "EOF" ELSE "nil"

\* d.Decode(&ob) after n units of archive a have been consumed.
DecodeResult(a, n) ==
    IF n = Len(a) THEN "EOF"
    ELSE IF a[n + 1].bad THEN "error"
    ELSE "nil"

\* Mutation: the dry-run flag is not consulted.
NoopIgnored == FALSE

\* `if *restoreNoop` in restoreFile.
NoopSet == noop

\* Mutation: the error of url.Parse is dropped.
ParseErrorDropped == FALSE

\* `u, err := url.Parse(base); if err != nil`.
ParseError == ~baseOk

\* Mutation: the supervisor does not wait for the workers.
WaitSkipped == TRUE

\* wg.Wait() returns.
WaitReturns == wg = 0

\* Mutation: the loop bound is off by one.
SpawnedOneMore(n) == 1..(n + 1)

\* Mutation: the loop starts one goroutine too few.
SpawnedOneFewer(n) == 1..(n - 1)

\* Mutation: a worker count below one is raised to one.
SpawnedAtLeastOne(n) == 1..(IF n < 1 THEN 1 ELSE n)

\* The goroutines started by the loop `for i := 0; i < *restoreWorkers; i++`.
Spawned(n) == 1..n

\* Positions of the well-formed records whose path matches.
Matching == {i \in Positions : ~archive[i].bad /\ MatchString(pat, archive[i].Path)}

\* Workers inside restoreFile.
InFlight == {w \in WorkerIds : pc[w] \in {"restore", "post"}}

\* Mutation: log.Fatalf only logs, the goroutines go on.
RunningAlways == TRUE

\* log.Fatalf has not been called: the process is alive.
Running == fatal = "none"

\* ------------------------------------------------------------------------
\* Initial state
\* ------------------------------------------------------------------------
Setup ==
    /\ fileState \in FileStates
    /\ archive \in (IF fileState = "ok" THEN Archives ELSE {<<>>})
    /\ pat \in Patterns
    /\ workers \in -1..MaxWorkers
    /\ noop \in BOOLEAN
    /\ baseOk \in BOOLEAN
    /\ sup = "Init"
    /\ idx = 0
    /\ nfiles = 0
    /\ ch = <<>>
    /\ chClosed = FALSE
    /\ wg = 0
    /\ pc = [w \in WorkerIds |-> "unstarted"]
    /\ item = [w \in WorkerIds |-> <<>>]
    /\ fatal = "none"
    /\ sent = {}
    /\ recvCount = [i \in Positions |-> 0]
    /\ order = <<>>
    /\ posts = {}
    /\ reply = [i \in Positions |-> <<>>]
    /\ outcome = [i \in Positions |-> "none"]
    /\ doneCount = [i \in Positions |-> 0]
    /\ summary = <<>>

\* Every POST that is issued can return.
Init == Setup /\ hung = 0

\* The endpoint hangs on the POST of one record of the archive.
HungInit == Setup /\ hung \in Positions

\* ------------------------------------------------------------------------
\* restoreCommand
\* ------------------------------------------------------------------------
\* Lines 78-108: compile the pattern, open and gunzip the file, start the
\* workers.
Startup ==
    /\ Running
    /\ sup = "Init"
    /\ IF ~Compile(pat)
         THEN fatal' = "pattern" /\ UNCHANGED <<sup, wg, pc>>
         ELSE IF fileState = "missing"
         THEN fatal' = "open" /\ UNCHANGED <<sup, wg, pc>>
         ELSE IF fileState = "notgzip"
         THEN fatal' = "gzip" /\ UNCHANGED <<sup, wg, pc>>
         ELSE /\ wg' = Cardinality(Spawned(workers))
              /\ pc' = [w \in WorkerIds |->
                          IF w \in Spawned(workers) THEN "recv" ELSE "unstarted"]
              /\ sup' = "Scanning"
              /\ UNCHANGED fatal
    /\ UNCHANGED <<idx, nfiles, ch, chClosed, item, config, hist>>

\* Mutation: the channel is buffered, the send does not wait for a receiver.
DecodeBuffered ==
    /\ Running
    /\ sup \in {"Scanning", "Push"}
    /\ IF DecodeResult(archive, idx) = "EOF"
         THEN /\ sup' = "Closing"
              /\ UNCHANGED <<idx, nfiles, ch, fatal, sent>>
         ELSE IF DecodeResult(archive, idx) = "error"
         THEN /\ fatal' = "decode"
              /\ UNCHANGED <<sup, idx, nfiles, ch, sent>>
         ELSE /\ idx' = idx + 1
              /\ IF MatchString(pat, archive[idx + 1].Path)
                   THEN /\ nfiles' = nfiles + 1
                        /\ ch' = Append(ch, [pos |-> idx + 1, Path |-> archive[idx + 1].Path])
                        /\ sent' = sent \cup {idx + 1}
                        /\ sup' = "Push"
                   ELSE UNCHANGED <<nfiles, ch, sent, sup>>
              /\ UNCHANGED fatal
    /\ UNCHANGED <<chClosed, wg, pc, item, config>>
    /\ UNCHANGED <<recvCount, order, posts, reply, outcome, doneCount, summary>>

\* Mutation: each send runs in a goroutine of its own, so a later record can
\* be offered to the workers before an earlier one.
DecodeAsyncSend ==
    /\ Running
    /\ sup \in {"Scanning", "Push"}
    /\ IF DecodeResult(archive, idx) = "EOF"
         THEN /\ ch = <<>>
              /\ sup' = "Closing"
              /\ UNCHANGED <<idx, nfiles, ch, fatal, sent>>
         ELSE IF DecodeResult(archive, idx) = "error"
         THEN /\ fatal' = "decode"
              /\ UNCHANGED <<sup, idx, nfiles, ch, sent>>
         ELSE /\ idx' = idx + 1
              /\ IF MatchString(pat, archive[idx + 1].Path)
                   THEN /\ nfiles' = nfiles + 1
                        /\ ch' = <<[pos |-> idx + 1, Path |-> archive[idx + 1].Path]>> \o ch
                        /\ sent' = sent \cup {idx + 1}
                        /\ sup' = "Push"
                   ELSE UNCHANGED <<nfiles, ch, sent, sup>>
              /\ UNCHANGED fatal
    /\ UNCHANGED <<chClosed, wg, pc, item, config>>
    /\ UNCHANGED <<recvCount, order, posts, reply, outcome, doneCount, summary>>

\* Mutation: the counter is incremented for every record read, before the
\* filter.
DecodeCountsAll ==
    /\ Running
    /\ sup = "Scanning"
    /\ IF DecodeResult(archive, idx) = "EOF"
         THEN /\ sup' = "Closing"
              /\ UNCHANGED <<idx, nfiles, ch, fatal, sent>>
         ELSE IF DecodeResult(archive, idx) = "error"
         THEN /\ fatal' = "decode"
              /\ UNCHANGED <<sup, idx, nfiles, ch, sent>>
         ELSE /\ idx' = idx + 1
              /\ nfiles' = nfiles + 1
              /\ IF MatchString(pat, archive[idx + 1].Path)
                   THEN /\ ch' = <<[pos |-> idx + 1, Path |-> archive[idx + 1].Path]>>
                        /\ sent' = sent \cup {idx + 1}
                        /\ sup' = "Push"
                   ELSE UNCHANGED <<ch, sent, sup>>
              /\ UNCHANGED fatal
    /\ UNCHANGED <<chClosed, wg, pc, item, config>>
    /\ UNCHANGED <<recvCount, order, posts, reply, outcome, doneCount, summary>>

\* Lines 113-129, one iteration up to the send: decode one unit; at io.EOF
\* leave the loop, on any other error log.Fatalf, on a record that matches
\* count it and start the send.
Decode ==
    /\ Running
    /\ sup = "Scanning"
    /\ IF DecodeResult(archive, idx) = "EOF"
         THEN /\ sup' = "Closing"
              /\ UNCHANGED <<idx, nfiles, ch, fatal, sent>>
         ELSE IF DecodeResult(archive, idx) = "error"
         THEN /\ fatal' = "decode"
              /\ UNCHANGED <<sup, idx, nfiles, ch, sent>>
         ELSE /\ idx' = idx + 1
              /\ IF MatchString(pat, archive[idx + 1].Path)
                   THEN /\ nfiles' = nfiles + 1
                        /\ ch' = <<[pos |-> idx + 1, Path |-> archive[idx + 1].Path]>>
                        /\ sent' = sent \cup {idx + 1}
                        /\ sup' = "Push"
                   ELSE UNCHANGED <<nfiles, ch, sent, sup>>
              /\ UNCHANGED fatal
    /\ UNCHANGED <<chClosed, wg, pc, item, config>>
    /\ UNCHANGED <<recvCount, order, posts, reply, outcome, doneCount, summary>>

\* Mutation: the channel is never closed.
CloseForgotten ==
    /\ Running
    /\ sup = "Closing"
    /\ sup' = "Draining"
    /\ UNCHANGED <<idx, nfiles, ch, chClosed, wg, pc, item, fatal, config, hist>>

\* Line 130: close(ch).
Close ==
    /\ Running
    /\ sup = "Closing"
    /\ chClosed' = TRUE
    /\ sup' = "Draining"
    /\ UNCHANGED <<idx, nfiles, ch, wg, pc, item, fatal, config, hist>>

\* Lines 131-133: wg.Wait() returns when the counter is zero; log the summary.
Wait ==
    /\ Running
    /\ sup = "Draining"
    /\ WaitReturns
    /\ summary' = <<nfiles>>
    /\ sup' = "Done"
    /\ UNCHANGED <<idx, nfiles, ch, chClosed, wg, pc, item, fatal, config>>
    /\ UNCHANGED <<sent, recvCount, order, posts, reply, outcome, doneCount>>

\* ------------------------------------------------------------------------
\* restoreWorker and restoreFile
\* ------------------------------------------------------------------------
\* Mutation: a sent item stays on the channel for a second receive.
RecvTwice(w) ==
    /\ Running
    /\ pc[w] = "recv"
    /\ ch # <<>>
    /\ item' = [item EXCEPT ![w] = ch]
    /\ pc' = [pc EXCEPT ![w] = "restore"]
    /\ IF recvCount[ch[1].pos] >= 1
         THEN ch' = <<>> /\ sup' = "Scanning"
         ELSE UNCHANGED <<ch, sup>>
    /\ recvCount' = [recvCount EXCEPT ![ch[1].pos] = @ + 1]
    /\ order' = Append(order, ch[1].pos)
    /\ outcome' = [outcome EXCEPT ![ch[1].pos] = "inflight"]
    /\ UNCHANGED <<idx, nfiles, chClosed, wg, fatal, config>>
    /\ UNCHANGED <<sent, posts, reply, doneCount, summary>>

\* Mutation: the worker counts the records it receives in the shared counter.
RecvCounts(w) ==
    /\ Running
    /\ pc[w] = "recv"
    /\ ch # <<>>
    /\ item' = [item EXCEPT ![w] = ch]
    /\ pc' = [pc EXCEPT ![w] = "restore"]
    /\ ch' = <<>>
    /\ sup' = "Scanning"
    /\ nfiles' = nfiles + 1
    /\ recvCount' = [recvCount EXCEPT ![ch[1].pos] = @ + 1]
    /\ order' = Append(order, ch[1].pos)
    /\ outcome' = [outcome EXCEPT ![ch[1].pos] = "inflight"]
    /\ UNCHANGED <<idx, chClosed, wg, fatal, config>>
    /\ UNCHANGED <<sent, posts, reply, doneCount, summary>>

\* Lines 68 and 121: the rendezvous of `ch <- ob` with `ob := range ch`.
Recv(w) ==
    /\ Running
    /\ pc[w] = "recv"
    /\ ch # <<>>
    /\ item' = [item EXCEPT ![w] = ch]
    /\ pc' = [pc EXCEPT ![w] = "restore"]
    /\ ch' = <<>>
    /\ sup' = "Scanning"
    /\ recvCount' = [recvCount EXCEPT ![ch[1].pos] = @ + 1]
    /\ order' = Append(order, ch[1].pos)
    /\ outcome' = [outcome EXCEPT ![ch[1].pos] = "inflight"]
    /\ UNCHANGED <<idx, nfiles, chClosed, wg, fatal, config>>
    /\ UNCHANGED <<sent, posts, reply, doneCount, summary>>

\* Lines 31-51: restoreFile up to the call of http.Post.  Meta was decoded
\* from the archive, so json.Marshal of it succeeds.
RestoreFile(w) ==
    /\ Running
    /\ pc[w] = "restore"
    /\ LET i == item[w][1].pos IN
       IF NoopSet
         THEN /\ outcome' = [outcome EXCEPT ![i] = "Success"]
              /\ doneCount' = [doneCount EXCEPT ![i] = @ + 1]
              /\ pc' = [pc EXCEPT ![w] = "recv"]
              /\ item' = [item EXCEPT ![w] = <<>>]
              /\ UNCHANGED <<fatal, posts>>
         ELSE IF ParseError
         THEN /\ fatal' = "url"
              /\ UNCHANGED <<outcome, doneCount, pc, item, posts>>
         ELSE /\ posts' = posts \cup {i}
              /\ pc' = [pc EXCEPT ![w] = "post"]
              /\ UNCHANGED <<outcome, doneCount, item, fatal>>
    /\ UNCHANGED <<sup, idx, nfiles, ch, chClosed, wg, config>>
    /\ UNCHANGED <<sent, recvCount, order, reply, summary>>

\* Mutation: restoreWorker returns at the first error of restoreFile.
PostReturnStop(w, r) ==
    /\ Running
    /\ pc[w] = "post"
    /\ item[w][1].pos # hung
    /\ LET i == item[w][1].pos IN
       /\ reply' = [reply EXCEPT ![i] = <<r>>]
       /\ IF r.err
            THEN /\ fatal' = "post"
                 /\ UNCHANGED <<outcome, doneCount, pc, item, wg>>
            ELSE /\ outcome' = [outcome EXCEPT ![i] =
                                  IF r.StatusCode # 201 THEN "Failed" ELSE "Success"]
                 /\ doneCount' = [doneCount EXCEPT ![i] = @ + 1]
                 /\ pc' = [pc EXCEPT ![w] =
                             IF r.StatusCode # 201 THEN "exited" ELSE "recv"]
                 /\ wg' = IF r.StatusCode # 201 THEN wg - 1 ELSE wg
                 /\ item' = [item EXCEPT ![w] = <<>>]
                 /\ UNCHANGED fatal
    /\ UNCHANGED <<sup, idx, nfiles, ch, chClosed, config>>
    /\ UNCHANGED <<sent, recvCount, order, posts, summary>>

\* Mutation: a transport error is returned like a bad status.
PostReturnPerItem(w, r) ==
    /\ Running
    /\ pc[w] = "post"
    /\ item[w][1].pos # hung
    /\ LET i == item[w][1].pos IN
       /\ reply' = [reply EXCEPT ![i] = <<r>>]
       /\ outcome' = [outcome EXCEPT ![i] =
                        IF r.err \/ r.StatusCode # 201 THEN "Failed" ELSE "Success"]
       /\ doneCount' = [doneCount EXCEPT ![i] = @ + 1]
       /\ pc' = [pc EXCEPT ![w] = "recv"]
       /\ item' = [item EXCEPT ![w] = <<>>]
    /\ UNCHANGED <<sup, idx, nfiles, ch, chClosed, wg, fatal, config>>
    /\ UNCHANGED <<sent, recvCount, order, posts, summary>>

\* Lines 52-63 and 70-73: http.Post returns r.  A transport error is
\* log.Fatalf; a status other than 201 is an error that restoreWorker logs.
PostReturn(w, r) ==
    /\ Running
    /\ pc[w] = "post"
    /\ item[w][1].pos # hung
    /\ LET i == item[w][1].pos IN
       /\ reply' = [reply EXCEPT ![i] = <<r>>]
       /\ IF r.err
            THEN /\ fatal' = "post"
                 /\ UNCHANGED <<outcome, doneCount, pc, item>>
            ELSE /\ outcome' = [outcome EXCEPT ![i] =
                                  IF r.StatusCode # 201 THEN "Failed" ELSE "Success"]
                 /\ doneCount' = [doneCount EXCEPT ![i] = @ + 1]
                 /\ pc' = [pc EXCEPT ![w] = "recv"]
                 /\ item' = [item EXCEPT ![w] = <<>>]
                 /\ UNCHANGED fatal
    /\ UNCHANGED <<sup, idx, nfiles, ch, chClosed, wg, config>>
    /\ UNCHANGED <<sent, recvCount, order, posts, summary>>

\* Mutation: a worker leaves as soon as it finds nothing to receive.
ExitEarly(w) ==
    /\ Running
    /\ pc[w] = "recv"
    /\ ch = <<>>
    /\ pc' = [pc EXCEPT ![w] = "exited"]
    /\ wg' = wg - 1
    /\ UNCHANGED <<sup, idx, nfiles, ch, chClosed, item, fatal, config, hist>>

\* Mutation: a worker adds to the counter when it leaves.
ExitCounts(w) ==
    /\ Running
    /\ pc[w] = "recv"
    /\ chClosed
    /\ ch = <<>>
    /\ pc' = [pc EXCEPT ![w] = "exited"]
    /\ wg' = wg - 1
    /\ nfiles' = nfiles + 1
    /\ UNCHANGED <<sup, idx, ch, chClosed, item, fatal, config, hist>>

\* Lines 67-68: the range loop ends on the closed channel; wg.Done().
Exit(w) ==
    /\ Running
    /\ pc[w] = "recv"
    /\ chClosed
    /\ ch = <<>>
    /\ pc' = [pc EXCEPT ![w] = "exited"]
    /\ wg' = wg - 1
    /\ UNCHANGED <<sup, idx, nfiles, ch, chClosed, item, fatal, config, hist>>

Worker(w) ==
    \/ Recv(w)
    \/ RestoreFile(w)
    \/ \E r \in Replies : PostReturn(w, r)
    \/ Exit(w)

Supervisor ==
    \/ Startup
    \/ Decode
    \/ Close
    \/ Wait

Next ==
    \/ Supervisor
    \/ \E w \in WorkerIds : Worker(w)

Spec == Init /\ [][Next]_vars

\* Go schedules every runnable goroutine; a POST that is issued returns.
FairSpec ==
    /\ Spec
    /\ WF_vars(Supervisor)
    /\ \A w \in WorkerIds : WF_vars(Worker(w))

\* The same scheduling with an endpoint that never answers one POST.
HungSpec ==
    /\ HungInit /\ [][Next]_vars
    /\ WF_vars(Supervisor)
    /\ \A w \in WorkerIds : WF_vars(Worker(w))

\* ------------------------------------------------------------------------
\* Properties
\* ------------------------------------------------------------------------
TypeOK ==
    /\ archive \in Archives
    /\ sup \in {"Init", "Scanning", "Push", "Closing", "Draining", "Done"}
    /\ idx \in 0..Len(archive)
    /\ nfiles \in 0..Len(archive)
    /\ Len(ch) <= 1
    /\ wg \in 0..(MaxWorkers + 1)
    /\ pc \in [WorkerIds -> {"unstarted", "recv", "restore", "post", "exited"}]
    /\ fatal \in {"none", "pattern", "open", "gzip", "decode", "url", "post"}

\* The records a reader of the patterns expects to be restored.
Expected ==
    {i \in Positions :
        /\ ~archive[i].bad
        /\ \/ pat.src = ".*"
           \/ pat.src = "^a/" /\ archive[i].Path = PathA
           \/ pat.src = "2" /\ archive[i].Path = PathB}

\* The inputs of a run that no startup or decode error ends.
WellFormed ==
    /\ Compile(pat)
    /\ fileState = "ok"
    /\ \A i \in Positions : ~archive[i].bad

\* C1 - filter correctness: no record whose path does not match the pattern
\* is ever sent on or received from the channel, and at Done the number of
\* records dispatched, nfiles and the count of the summary all equal the
\* number of records of the archive whose path matches.
C1_FilterCorrectness ==
    /\ sent \subseteq Expected
    /\ \A i \in Positions : recvCount[i] > 0 => i \in Expected
    /\ sup = "Done" =>
         /\ Len(order) = Cardinality(Expected)
         /\ {order[k] : k \in 1..Len(order)} = Expected
         /\ nfiles = Cardinality(Expected)
         /\ summary = <<Cardinality(Expected)>>

C1_Witness ==
    /\ sup = "Done"
    /\ pat.src = "^a/"
    /\ Len(order) >= 2
    /\ \E i \in Positions : ~archive[i].bad /\ i \notin Expected

\* C2 - exactly-once handoff: in every state each record has been received
\* at most once and by at most one worker, no two workers hold the same
\* record, and at Done every matching record has been received exactly once
\* and restoreFile has returned for it exactly once.
C2_ExactlyOnce ==
    /\ \A i \in Positions :
         /\ recvCount[i] <= 1
         /\ Cardinality({w \in WorkerIds : item[w] # <<>> /\ item[w][1].pos = i}) <= recvCount[i]
         /\ doneCount[i] <= recvCount[i]
    /\ \A v, w \in WorkerIds :
         (v # w /\ item[v] # <<>> /\ item[w] # <<>>) => item[v][1].pos # item[w][1].pos
    /\ sup = "Done" =>
         \A i \in Matching :
            /\ recvCount[i] = 1
            /\ doneCount[i] = 1

C2_Witness ==
    /\ sup = "Done"
    /\ workers >= 2
    /\ Cardinality(Matching) >= 2
    /\ \A i \in Matching : recvCount[i] = 1 /\ doneCount[i] = 1

\* C3 - concurrency bound: the number of workers between receiving a record
\* and returning from restoreFile never exceeds the worker count (none at
\* all for a count below one).
C3_ConcurrencyBound == Cardinality(InFlight) <= (IF workers > 0 THEN workers ELSE 0)

C3_Witness ==
    /\ workers = MaxWorkers
    /\ Cardinality(InFlight) = workers
    /\ \A w \in InFlight : pc[w] = "post"

\* C4 - completion barrier: in Done the channel is closed and empty, every
\* worker has exited, nothing is in flight, and every record that was sent
\* has been received and has ended in Success or Failed.
C4_CompletionBarrier ==
    sup = "Done" =>
        /\ chClosed
        /\ ch = <<>>
        /\ wg = 0
        /\ \A w \in WorkerIds : pc[w] \in {"unstarted", "exited"}
        /\ \A w \in WorkerIds : w <= workers => pc[w] = "exited"
        /\ InFlight = {}
        /\ \A i \in sent : recvCount[i] = 1 /\ outcome[i] \in {"Success", "Failed"}
        /\ summary # <<>>

C4_Witness ==
    /\ sup = "Done"
    /\ workers = MaxWorkers
    /\ \E i \in sent : outcome[i] = "Failed"
    /\ \E i \in sent : outcome[i] = "Success"

\* A step in which http.Post returns to worker w a status other than 201.
BadStatusStep(w) ==
    /\ pc[w] = "post"
    /\ reply'[item[w][1].pos] # reply[item[w][1].pos]
    /\ ~reply'[item[w][1].pos][1].err
    /\ reply'[item[w][1].pos][1].StatusCode # 201

\* The worker logs the failure and goes back to the channel; nothing else moves.
BadStatusIsolated ==
    \A w \in WorkerIds :
        BadStatusStep(w) =>
            /\ pc'[w] = "recv"
            /\ outcome'[item[w][1].pos] = "Failed"
            /\ fatal' = "none"
            /\ nfiles' = nfiles
            /\ wg' = wg
            /\ UNCHANGED <<sup, idx, ch, chClosed, summary>>
            /\ \A v \in WorkerIds \ {w} : pc'[v] = pc[v] /\ item'[v] = item[v]

\* C5 - failure isolation for statuses other than 201: the step that
\* returns such a status leaves its worker receiving again, marks only that
\* record Failed and changes neither nfiles nor any other worker; a worker
\* exits only on the closed channel; the summary counts the matched records,
\* not the successes; and once a record has Failed the run still reaches
\* Done unless a log.Fatalf ends it.
C5_StatusFailureIsolated ==
    /\ [][BadStatusIsolated]_vars
    /\ [](\A w \in WorkerIds : pc[w] = "exited" => chClosed)
    /\ [](sup = "Done" => summary = <<Cardinality(Matching)>>)
    /\ ((\E i \in Positions : outcome[i] = "Failed") ~> (sup = "Done" \/ fatal # "none"))

C5_Witness ==
    /\ sup = "Done"
    /\ summary = <<2>>
    /\ \E i, j \in Positions :
         /\ i < j
         /\ outcome[i] = "Failed" /\ reply[i][1].StatusCode = 500
         /\ outcome[j] = "Success"
    /\ workers = 1

\* C6 as stated - a transport failure is a Failed outcome of that record
\* only and does not end the run.
C6_TransportPerItem ==
    \A i \in Positions :
        (reply[i] # <<>> /\ reply[i][1].err) => (outcome[i] = "Failed" /\ fatal = "none")

\* C6 as amended - a transport failure of http.Post is log.Fatalf: the
\* record is left without an outcome, the process ends there (no step
\* follows), and neither Done nor the summary is reached.
C6_TransportFatal ==
    /\ [](\A i \in Positions :
            (reply[i] # <<>> /\ reply[i][1].err) =>
                /\ fatal = "post"
                /\ outcome[i] = "inflight"
                /\ doneCount[i] = 0
                /\ sup # "Done"
                /\ summary = <<>>)
    /\ [][fatal # "post"]_vars

C6_Witness ==
    /\ fatal = "post"
    /\ \E i \in Positions : reply[i] # <<>> /\ reply[i][1].err
    /\ \E j \in Matching : j \notin sent
    /\ \E w \in WorkerIds : pc[w] = "post" /\ reply[item[w][1].pos] = <<>>

\* C7 - dry run: with the noop flag no http.Post is ever called, every
\* record handed to restoreFile ends in Success, at Done every matched record
\* is a Success and the summary counts them, and a run over a well-formed
\* archive with at least one worker reaches Done.
C7_DryRun ==
    /\ [](noop =>
            /\ posts = {}
            /\ \A w \in WorkerIds : pc[w] # "post"
            /\ \A i \in Positions : reply[i] = <<>> /\ outcome[i] # "Failed"
            /\ \A i \in Positions : doneCount[i] > 0 => outcome[i] = "Success"
            /\ fatal \notin {"url", "post"}
            /\ sup = "Done" =>
                 /\ \A i \in Matching : outcome[i] = "Success"
                 /\ summary = <<Cardinality(Matching)>>)
    /\ ((noop /\ WellFormed /\ workers >= 1) => <>(sup = "Done"))

C7_Witness ==
    /\ noop
    /\ ~baseOk
    /\ sup = "Done"
    /\ Cardinality(Matching) >= 2
    /\ \A i \in Matching : outcome[i] = "Success"

\* C8 - fatal decode short-circuit: the decoder never passes a malformed
\* unit, so no record at or after it is sent, received or submitted, the
\* channel is never closed, Closing/Draining/Done are never entered and no
\* summary is logged.
C8_DecodeShortCircuit ==
    \A k \in Positions :
        archive[k].bad =>
            /\ idx < k
            /\ \A i \in k..Len(archive) :
                 i \notin sent /\ recvCount[i] = 0 /\ outcome[i] = "none" /\ i \notin posts
            /\ ~chClosed
            /\ sup \notin {"Closing", "Draining", "Done"}
            /\ summary = <<>>
            /\ fatal \in {"none", "decode", "url", "post", "pattern"}

C8_Witness ==
    /\ fatal = "decode"
    /\ Len(archive) >= 3
    /\ archive[2].bad
    /\ 3 \in Matching
    /\ recvCount[1] = 1

\* C9 as stated - with a malformed base no worker is started, no record is
\* sent or submitted, and Done is never reached.
C9_BadBaseAtInit ==
    ~baseOk =>
        /\ \A w \in WorkerIds : pc[w] = "unstarted"
        /\ sent = {}
        /\ posts = {}
        /\ sup # "Done"
        /\ summary = <<>>

\* C9 as amended - a malformed base is found by url.Parse inside restoreFile:
\* the process ends when a worker handles the first record it received in a
\* run that is not a dry run, after the workers were started and that record
\* was dispatched; no http.Post is ever called and no record gets an outcome
\* outside a dry run; Done is reached only by a dry run or when no record
\* matches.
C9_BadBaseInWorker ==
    /\ ~baseOk =>
         /\ posts = {}
         /\ \A i \in Positions : reply[i] = <<>>
         /\ \A i \in Positions : outcome[i] \in {"Success", "Failed"} => noop
         /\ \A i \in Positions : doneCount[i] > 0 => noop
         /\ ~noop => Len(order) <= (IF workers > 0 THEN workers ELSE 0)
         /\ sup = "Done" => (noop \/ Matching = {})
         /\ fatal # "post"
    /\ fatal = "url" =>
         /\ ~baseOk /\ ~noop
         /\ Len(order) >= 1
         /\ \E w \in WorkerIds : w <= workers /\ pc[w] = "restore"
         /\ \A w \in WorkerIds : w <= workers => pc[w] # "unstarted"

C9_Witness ==
    /\ fatal = "url"
    /\ workers = MaxWorkers
    /\ sup = "Push"
    /\ Cardinality(sent) = 2

\* C10 - termination: over a well-formed archive, with at least one worker
\* and a base that parses (or a dry run), a fairly scheduled run in which
\* every http.Post returns a response reaches Draining and then Done, with
\* the channel closed, every worker exited and the summary logged.
C10_Termination ==
    (WellFormed /\ workers >= 1 /\ (noop \/ baseOk)) =>
        /\ <>(sup = "Draining" \/ fatal = "post")
        /\ <>(\/ fatal = "post"
              \/ /\ sup = "Done"
                 /\ chClosed
                 /\ \A w \in WorkerIds : w <= workers => pc[w] = "exited"
                 /\ summary = <<nfiles>>)

C10_Witness ==
    /\ sup = "Done"
    /\ ~noop
    /\ workers = MaxWorkers
    /\ Len(archive) = MaxLen
    /\ Cardinality(Matching) = MaxLen
    /\ \E i \in Positions : outcome[i] = "Failed"

\* C11 - the matched counter never decreases and changes only in a step of
\* the scan loop, by one, before the channel is closed; no step taken in
\* Closing, Draining or Done changes it, and the summary reports the value
\* it had when the scan ended.
C11_CounterOnlyWhileScanning ==
    /\ [][/\ nfiles' >= nfiles
          /\ nfiles' # nfiles =>
               (sup = "Scanning" /\ ~chClosed /\ nfiles' = nfiles + 1 /\ idx' = idx + 1)
          /\ sup \in {"Closing", "Draining", "Done"} => nfiles' = nfiles]_vars
    /\ [](sup \in {"Closing", "Draining", "Done"} => nfiles = Cardinality(Matching))
    /\ [](sup = "Done" => summary = <<nfiles>>)

C11_Witness ==
    /\ sup = "Done"
    /\ nfiles = 2
    /\ Len(archive) = 3
    /\ summary = <<2>>
    /\ workers = 1

\* Records that were sent and whose restoreFile has not returned.
Unfinished == {i \in sent : outcome[i] \notin {"Success", "Failed"}}

\* C12 - backpressure: the channel holds at most the one item of the blocked
\* send; the decoder does not advance while that item is unreceived, and the
\* send ends only by a worker receiving it; so the records sent and not yet
\* finished are those the workers hold plus at most the blocked one, at most
\* N + 1.
C12_Backpressure ==
    /\ [](/\ Len(ch) <= 1
          /\ ch # <<>> <=> sup = "Push"
          /\ Cardinality(Unfinished) = Cardinality(InFlight) + Len(ch)
          /\ Cardinality(Unfinished) <= (IF workers > 0 THEN workers ELSE 0) + 1)
    /\ [][/\ idx' # idx => ch = <<>>
          /\ (sup = "Push" /\ sup' # "Push") =>
               \E w \in WorkerIds : pc[w] = "recv" /\ pc'[w] = "restore" /\ item'[w] = ch]_vars

C12_Witness ==
    /\ sup = "Push"
    /\ workers = 2
    /\ Cardinality(InFlight) = workers
    /\ Cardinality(Unfinished) = workers + 1

\* The number of matching records at or before position i.
Rank(i) == Cardinality({j \in Matching : j <= i})

\* C13 - archive-order dispatch: the k-th record received from the channel,
\* by whichever worker, is the k-th matching record of the archive, so the
\* receives form the order-preserving subsequence of matching records; at
\* Done it is the whole subsequence.  The witness is a state in which a later
\* record has finished while an earlier one is still in flight.
C13_ArchiveOrderDispatch ==
    /\ \A k \in 1..Len(order) : order[k] \in Matching /\ Rank(order[k]) = k
    /\ \A k \in 1..(Len(order) - 1) : order[k] < order[k + 1]
    /\ sup = "Done" => Len(order) = Cardinality(Matching)

C13_Witness ==
    /\ Len(order) >= 2
    /\ order[1] + 1 < order[2]
    /\ outcome[order[1]] = "inflight"
    /\ outcome[order[2]] \in {"Success", "Failed"}

\* C14 - worker lifetime and close protocol: a worker exits only from its
\* receive, holding no item, after the channel was closed, hence never while
\* the supervisor is still scanning; the channel is closed by one step, from
\* Closing to Draining, after every matching record was sent and received,
\* it stays closed and Closing is not entered again; nothing is sent once it
\* is closed.
C14_CloseProtocol ==
    /\ [](/\ \A w \in WorkerIds :
               pc[w] = "exited" =>
                   (chClosed /\ sup \in {"Draining", "Done"} /\ item[w] = <<>>)
          /\ chClosed =>
               /\ sup \in {"Draining", "Done"}
               /\ ch = <<>>
               /\ idx = Len(archive)
               /\ sent = Matching
               /\ \A i \in sent : recvCount[i] = 1)
    /\ [][/\ chClosed => chClosed'
          /\ chClosed' # chClosed => (sup = "Closing" /\ sup' = "Draining")
          /\ sup \in {"Draining", "Done"} => sup' \in {"Draining", "Done"}
          /\ (sent' # sent \/ (ch' # ch /\ ch' # <<>>)) => (~chClosed /\ ~chClosed')
          /\ \A w \in WorkerIds :
               (pc'[w] = "exited" /\ pc[w] # "exited") =>
                   (pc[w] = "recv" /\ chClosed /\ wg' = wg - 1)]_vars

C14_Witness ==
    /\ sup = "Draining"
    /\ chClosed
    /\ workers = 2
    /\ pc[1] = "exited"
    /\ pc[2] = "post"
    /\ Cardinality(sent) >= 2

\* A run in which the POST of a matching record hangs and nothing else fails.
HungCase ==
    /\ WellFormed
    /\ workers >= 2
    /\ ~noop
    /\ baseOk
    /\ hung \in Matching

\* Everything but the hung submission is over and the supervisor waits.
HungDrained ==
    /\ fatal = "none"
    /\ sup = "Draining"
    /\ chClosed
    /\ \A i \in Matching \ {hung} : i \in posts /\ outcome[i] \in {"Success", "Failed"}
    /\ outcome[hung] = "inflight"
    /\ wg = 1
    /\ \E w \in WorkerIds :
         /\ pc[w] = "post" /\ item[w][1].pos = hung
         /\ \A v \in WorkerIds \ {w} : v <= workers => pc[v] = "exited"

\* C15 - hung endpoint: with N >= 2 and one POST that never returns, the
\* run is not aborted by the hang, every other matching record is still
\* posted and finished by the remaining workers and the channel is closed
\* (unless another POST ends in log.Fatalf), and the supervisor stays in
\* wg.Wait: Done is never reached and no summary is logged.
C15_HungEndpoint ==
    /\ []((~noop /\ hung \in Positions) => (reply[hung] = <<>> /\ doneCount[hung] = 0))
    /\ []((~noop /\ hung \in Matching) => (sup # "Done" /\ summary = <<>>))
    /\ (HungCase => [](fatal \in {"none", "post"}))
    /\ (HungCase => <>[](fatal = "post" \/ HungDrained))

C15_Witness ==
    /\ HungCase
    /\ HungDrained
    /\ hung = 1
    /\ Cardinality(Matching) = 3
    /\ \E i \in Matching : outcome[i] = "Failed"

\* C16 - a fatal condition halts the whole process: no step of the scanner
\* or of any worker follows a log.Fatalf, so nothing is received, submitted
\* or finished afterwards, records in flight stay unfinished, and a state
\* with a fatal condition is never Done and has no summary.
C16_FatalHaltsAll ==
    /\ [][fatal = "none"]_vars
    /\ [](fatal # "none" =>
            /\ sup # "Done"
            /\ summary = <<>>)
    /\ [](fatal \in {"pattern", "open", "gzip", "decode"} =>
            /\ ~chClosed
            /\ \A w \in WorkerIds : pc[w] # "exited")

C16_Witness ==
    /\ fatal = "decode"
    /\ workers = 2
    /\ \E w \in WorkerIds : pc[w] = "post" /\ outcome[item[w][1].pos] = "inflight"
    /\ \E w \in WorkerIds : pc[w] = "restore" /\ item[w][1].pos \notin posts

\* A step of worker w: it receives, submits, gets a reply, finishes or exits.
WorkerStep(w) ==
    /\ pc[w] # "unstarted"
    /\ \/ pc'[w] # pc[w]
       \/ item'[w] # item[w]
       \/ (item[w] # <<>> /\ reply'[item[w][1].pos] # reply[item[w][1].pos])

\* C17 - workers leave the run accounting unchanged: no step of a worker
\* changes nfiles, the decoder position, the set of records sent or the
\* summary, and a step that changes nfiles is a step of the scan loop in
\* which no worker moves, so the counter has a single writer.
C17_WorkersLeaveAccounting ==
    [][/\ \A w \in WorkerIds :
            WorkerStep(w) => UNCHANGED <<nfiles, idx, sent, summary>>
       /\ nfiles' # nfiles =>
            /\ sup = "Scanning"
            /\ UNCHANGED <<pc, item, reply, outcome, doneCount, recvCount, order, posts>>]_vars

C17_Witness ==
    /\ sup = "Scanning"
    /\ nfiles = 2
    /\ idx = 2
    /\ \E i \in Positions : outcome[i] = "Failed"
    /\ \E w \in WorkerIds : pc[w] = "post"

\* C18 - the counter is incremented before the send: with dispatched the
\* number of receives, dispatched <= nfiles <= dispatched + 1 in every
\* state; nfiles is one ahead exactly while the scanner is blocked in the
\* send, and equal otherwise, in particular in Draining and Done.
C18_CounterAheadByOne ==
    /\ Len(order) <= nfiles
    /\ nfiles <= Len(order) + 1
    /\ nfiles = Cardinality(sent)
    /\ sup = "Push" => nfiles = Len(order) + 1
    /\ sup # "Push" => nfiles = Len(order)

C18_Witness ==
    /\ sup = "Push"
    /\ nfiles = 3
    /\ Len(order) = 2

\* The first matching record of the archive is offered on the channel.
BlockedOnFirstPush ==
    /\ fatal = "none"
    /\ sup = "Push"
    /\ nfiles = 1
    /\ Len(ch) = 1
    /\ \A j \in Matching : ch[1].pos <= j

\* C19 - the worker count is not validated: with a count of 0 or below
\* Startup succeeds and starts no worker, so nothing is ever received; if a
\* record matches, the scanner stays blocked in its first send for ever and
\* Closing, Draining and Done are never reached; if no record matches, the
\* run reaches Done and reports 0.
C19_NoWorkers ==
    /\ [](workers <= 0 =>
            /\ \A w \in WorkerIds : pc[w] = "unstarted"
            /\ wg = 0
            /\ order = <<>>
            /\ posts = {}
            /\ nfiles <= 1
            /\ fatal \in {"none", "pattern", "open", "gzip", "decode"}
            /\ (fileState = "ok" /\ Compile(pat)) => fatal \in {"none", "decode"})
    /\ []((workers <= 0 /\ Matching # {}) =>
            (sup \notin {"Closing", "Draining", "Done"} /\ summary = <<>>))
    /\ ((workers <= 0 /\ WellFormed /\ Matching # {}) => <>[]BlockedOnFirstPush)
    /\ ((workers <= 0 /\ WellFormed /\ Matching = {}) =>
            <>(sup = "Done" /\ summary = <<0>> /\ idx = Len(archive)))

C19_Witness ==
    /\ workers <= 0
    /\ BlockedOnFirstPush
    /\ idx = 2
    /\ Len(archive) = 3
    /\ Cardinality(Matching) = 2

====
